---------------------------- MODULE Spec2Model ----------------------------
(***************************************************************************)
(* Model of the effector propagation kernel                                *)
(* (src/src/effector/stdlib/refcount.js): the composite priority queue     *)
(* (five buckets, three linked lists and one shared skew heap), the step   *)
(* interpreter and drain loop `exec`, and the entry point `launch`.        *)
(*                                                                         *)
(* The JavaScript call stack is modelled explicitly: `frames` holds one    *)
(* record per active call of exec(), the last one being the running one.   *)
(* A user function that calls launch() from inside a step suspends its     *)
(* frame until the nested exec() returns.                                  *)
(***************************************************************************)
EXTENDS Integers, Sequences, FiniteSets, TLC

(* ------------------------------ bounds --------------------------------- *)

\* payloads injected by launch() range over 0..MaxPayload
MaxPayload == 1

\* calls made to nextUnitID and to nextStepID
MaxUnitCalls == 2
MaxStepCalls == 37

\* barrier layers with generated ids held in the heap at a time
MaxIdHeap == 2

(* ------------------------------ values --------------------------------- *)

\* JavaScript `undefined` and `null`, kept apart from the integer payloads
Undefined == -1
Null == -2

\* JavaScript truthiness of a value, as used by `!tryRun(...)`
Truthy(v) == v # 0 /\ v # Undefined /\ v # Null

(* --------------------------- priority tags ----------------------------- *)

PriorityTag == {"child", "pure", "barrier", "sampler", "effect"}

getPriority(t) ==
  CASE t = "child" -> 0
    [] t = "pure" -> 1
    [] t = "barrier" -> 2
    [] t = "sampler" -> 3
    [] t = "effect" -> 4
    [] OTHER -> -1

(* ------------------------------ skew heap ------------------------------ *)
\* A heap is <<>> (null / 0) or <<v, l, r>>.

HeapNode(v, l, r) == <<v, l, r>>

\* a swap condition under which a barrier loses against a sampler
mergeSwapSamplerFirst(a, b) ==
  LET isSameType == a[1].type = b[1].type
  IN  \/ (isSameType /\ a[1].id > b[1].id)
      \/ (~isSameType /\ a[1].type = "barrier")

\* a swap condition that compares ids whatever the types
mergeSwapById(a, b) == a[1].id > b[1].id

\* the swap condition of merge: a loses against b
mergeSwap(a, b) ==
  LET isSameType == a[1].type = b[1].type
  IN  \/ (isSameType /\ a[1].id > b[1].id)
      \/ (~isSameType /\ a[1].type = "sampler")

RECURSIVE merge(_, _)
merge(a, b) ==
  IF a = <<>> THEN b
  ELSE IF b = <<>> THEN a
  ELSE LET w == IF mergeSwap(a, b) THEN b ELSE a
           l == IF mergeSwap(a, b) THEN a ELSE b
           ret == merge(w[3], l)
       IN  HeapNode(w[1], ret, w[2])

\* the layers held in a heap
RECURSIVE HeapLayers(_)
HeapLayers(h) ==
  IF h = <<>> THEN {} ELSE {h[1]} \cup HeapLayers(h[2]) \cup HeapLayers(h[3])

RECURSIVE HeapSize(_)
HeapSize(h) ==
  IF h = <<>> THEN 0 ELSE 1 + HeapSize(h[2]) + HeapSize(h[3])


(* ------------------------- queue: five buckets ------------------------- *)
\* A Layer is [idx, stack, type, id, uid]; `uid` stands for the identity of
\* the JavaScript object and is never read by the modelled code.
\* A Stack is a sequence of frames [value, a, b, node, sid]: its head is the frame
\* itself and its tail the chain reached through `parent` (<<>> is null).
\* A QueueItem lives in `mem` at an address (0 is null): [right, value].
\* The queue state is the record Q = [queue, mem, heap].

NoLayer == [idx |-> 0, stack |-> <<>>, type |-> "none", id |-> 0, uid |-> 0]

EmptyBucket == [first |-> 0, last |-> 0, size |-> 0]

NewAddr(m) ==
  CHOOSE a \in 1..(Cardinality(DOMAIN m) + 1) :
    a \notin DOMAIN m /\ \A b \in 1..(a - 1) : b \in DOMAIN m

\* a scan that serves the last non-empty bucket instead of the first
deleteMinScanLast(q) ==
  IF \E i \in 0..4 : q[i].size > 0
  THEN CHOOSE i \in 0..4 : q[i].size > 0 /\ \A j \in (i + 1)..4 : q[j].size = 0
  ELSE 5

\* which bucket index the dequeue scan stops at (5: none)
deleteMinScan(q) ==
  IF \E i \in 0..4 : q[i].size > 0
  THEN CHOOSE i \in 0..4 : q[i].size > 0 /\ \A j \in 0..(i - 1) : q[j].size = 0
  ELSE 5

\* buckets 2 and 3 are served by the heap
usesHeap(priority) == priority = 2 \/ priority = 3

\* a heap pop that leaves the bucket's size as it was
heapSizeStale(size) == size

\* `list.size -= 1` of the heap branch of deleteMin
heapSizeAfterPop(size) == size - 1

deleteMin(Q) ==
  LET i == deleteMinScan(Q.queue)
      list == Q.queue[i]
  IN  IF i = 5
      THEN [found |-> FALSE, value |-> NoLayer, Q |-> Q]
      ELSE IF usesHeap(i)
      THEN [found |-> TRUE,
            value |-> Q.heap[1],
            Q |-> [Q EXCEPT !.queue[i].size = heapSizeAfterPop(@),
                            !.heap = merge(Q.heap[2], Q.heap[3])]]
      ELSE LET item == list.first
               last == IF list.size = 1 THEN 0 ELSE list.last
           IN  [found |-> TRUE,
                value |-> Q.mem[item].value,
                Q |-> [Q EXCEPT
                         !.queue[i] = [first |-> Q.mem[item].right,
                                       last |-> last,
                                       size |-> list.size - 1],
                         !.mem = [a \in (DOMAIN Q.mem) \ {item} |-> Q.mem[a]]]]

\* a pushHeap that links the new item in front of its list
pushHeapFront(Q, idx, stack, type, id, uid) ==
  LET priority == getPriority(type)
      bucket == Q.queue[priority]
      value == [idx |-> idx, stack |-> stack, type |-> type, id |-> id,
                uid |-> uid]
  IN  IF usesHeap(priority)
      THEN [Q EXCEPT !.heap = merge(Q.heap, HeapNode(value, <<>>, <<>>)),
                     !.queue[priority].size = @ + 1]
      ELSE LET item == NewAddr(Q.mem)
           IN  [Q EXCEPT
                  !.mem = Q.mem @@ (item :> [right |-> bucket.first,
                                             value |-> value]),
                  !.queue[priority] =
                     [first |-> item,
                      last |-> IF bucket.size = 0 THEN item ELSE bucket.last,
                      size |-> bucket.size + 1]]

pushHeap(Q, idx, stack, type, id, uid) ==
  LET priority == getPriority(type)
      bucket == Q.queue[priority]
      value == [idx |-> idx, stack |-> stack, type |-> type, id |-> id,
                uid |-> uid]
  IN  IF usesHeap(priority)
      THEN [Q EXCEPT !.heap = merge(Q.heap, HeapNode(value, <<>>, <<>>)),
                     !.queue[priority].size = @ + 1]
      ELSE LET item == NewAddr(Q.mem)
               linked == IF bucket.size = 0
                         THEN Q.mem
                         ELSE [Q.mem EXCEPT ![bucket.last].right = item]
           IN  [Q EXCEPT
                  !.mem = linked @@ (item :> [right |-> 0, value |-> value]),
                  !.queue[priority] =
                     [first |-> IF bucket.size = 0 THEN item ELSE bucket.first,
                      last |-> item,
                      size |-> bucket.size + 1]]

\* a stack frame that is not linked to its parent
NewStackDetached(node, parent, value, sid) ==
  <<[value |-> value, a |-> Null, b |-> Null, node |-> node, sid |-> sid]>>

\* `sid` stands for the identity of the Stack object, as `uid` does for a Layer
NewStack(node, parent, value, sid) ==
  <<[value |-> value, a |-> Null, b |-> Null, node |-> node, sid |-> sid]>>
  \o parent

pushFirstHeapItem(Q, type, node, parent, value, uid) ==
  pushHeap(Q, 0, NewStack(node, parent, value, uid), type, 0, uid)

\* the layers of a linked list, first to last
RECURSIVE ListFrom(_, _)
ListFrom(m, a) ==
  IF a = 0 \/ a \notin DOMAIN m THEN <<>>
  ELSE <<m[a].value>> \o ListFrom(m, m[a].right)

BucketList(Q, i) == ListFrom(Q.mem, Q.queue[i].first)

Range(s) == {s[k] : k \in 1..Len(s)}

\* every layer the queue holds
QueuedLayers(Q) ==
  HeapLayers(Q.heap) \cup UNION {Range(BucketList(Q, i)) : i \in {0, 1, 4}}


(* ------------------------------- steps --------------------------------- *)
\* A step is [type, data]; the constructors give every data record the same
\* fields, the unused ones left at 0 / "".

StepData ==
  [barrierID |-> 0, priority |-> "", from |-> "", to |-> "", store |-> 0,
   target |-> 0, type |-> "", fn |-> [kind |-> "", unit |-> 0]]

Barrier(id, priority) ==
  [type |-> "barrier",
   data |-> [StepData EXCEPT !.barrierID = id, !.priority = priority]]
\* mov: `store` is the literal when from = "value", else the source store id
Mov(from, to, store, target) ==
  [type |-> "mov",
   data |-> [StepData EXCEPT !.from = from, !.to = to, !.store = store,
                             !.target = target]]
Check(type, store) ==
  [type |-> "check", data |-> [StepData EXCEPT !.type = type, !.store = store]]
Filter(fn) == [type |-> "filter", data |-> [StepData EXCEPT !.fn = fn]]
Compute(fn) == [type |-> "compute", data |-> [StepData EXCEPT !.fn = fn]]
Run(fn) == [type |-> "run", data |-> [StepData EXCEPT !.fn = fn]]

(* --------------------------- user functions ---------------------------- *)
\* The functions a graph author may put into filter / compute / run steps:
\*   inc     x => x + 1 on numbers
\*   pos     x => x > 0
\*   any     an arbitrary function: returns some value or throws
\*   launch  x => (launch(unit, x, upsert), x), upsert decided by the caller

FnInc == [kind |-> "inc", unit |-> 0]
FnPos == [kind |-> "pos", unit |-> 0]
FnAny == [kind |-> "any", unit |-> 0]
FnLaunch(unit) == [kind |-> "launch", unit |-> unit]

Payloads == 0..MaxPayload

\* plain launch arguments: one unit, one payload
LaunchArgs(unit, payload, upsert) ==
  [hasTarget |-> FALSE, isArray |-> FALSE, units |-> <<unit>>,
   payload |-> <<payload>>, upsert |-> upsert,
   params |-> <<>>, defer |-> FALSE]

NoArgs == LaunchArgs(0, 0, FALSE)

\* what one call fn(stack.value, local.scope, stack) may do
FnOutcomes(fn, value) ==
  CASE fn.kind = "inc" ->
         {[throws |-> FALSE, calls |-> FALSE, args |-> NoArgs,
           ret |-> IF value >= 0 THEN value + 1 ELSE value]}
    [] fn.kind = "pos" ->
         {[throws |-> FALSE, calls |-> FALSE, args |-> NoArgs,
           ret |-> IF value > 0 THEN 1 ELSE 0]}
    [] fn.kind = "any" ->
         {[throws |-> FALSE, calls |-> FALSE, args |-> NoArgs, ret |-> v] :
            v \in Payloads \cup {Undefined}}
         \cup {[throws |-> TRUE, calls |-> FALSE, args |-> NoArgs,
                ret |-> Undefined]}
    [] fn.kind = "launch" ->
         {[throws |-> FALSE, calls |-> TRUE,
           args |-> LaunchArgs(fn.unit, value, u), ret |-> value] :
            u \in BOOLEAN}
    [] OTHER -> {}


(* ------------------------------- graphs -------------------------------- *)
\* A graph is a sequence of nodes [seq, next, reg]; a node is named by its
\* index.  Edges and launch() calls of user functions only lead to larger
\* indices: the graphs are acyclic.  reg maps store ids to ref cells.

RefIds == {1, 2}
RegId == [s \in RefIds |-> s]
Node(seq, next) == [seq |-> seq, next |-> next, reg |-> RegId]

\* derivation, filter and check steps around one store
GDerive ==
  << Node(<<>>, <<2, 3>>),
     Node(<<Compute(FnInc), Check("changed", 1), Mov("stack", "store", 0, 1)>>,
          <<4>>),
     Node(<<Filter(FnPos), Compute(FnAny)>>, <<4>>),
     Node(<<Check("defined", 0), Mov("store", "a", 1, 0), Mov("a", "b", 0, 0),
            Mov("value", "stack", 7, 0), Mov("b", "stack", 0, 0),
            Mov("stack", "a", 0, 0)>>, <<>>) >>

\* two plain paths from node 1 into the combine node 4
GDiamond ==
  << Node(<<>>, <<2, 3>>),
     Node(<<Compute(FnInc)>>, <<4>>),
     Node(<<>>, <<4>>),
     Node(<<Barrier(1, "barrier"), Compute(FnAny)>>, <<5>>),
     Node(<<>>, <<>>) >>

\* three paths into the combine node 5: through a younger barrier, through
\* an effect and a plain one
GLate ==
  << Node(<<>>, <<2, 3, 4>>),
     Node(<<Barrier(2, "barrier")>>, <<5>>),
     Node(<<Run(FnInc), Run(FnInc)>>, <<5>>),
     Node(<<>>, <<5>>),
     Node(<<Barrier(1, "barrier"), Compute(FnInc)>>, <<>>) >>

\* observer 2 (sampler) reads the store that combine node 3 (barrier) writes
GSample ==
  << Node(<<>>, <<2, 3>>),
     Node(<<Barrier(1, "sampler"), Mov("store", "stack", 1, 0)>>, <<4>>),
     Node(<<Barrier(2, "barrier"), Compute(FnInc),
            Mov("stack", "store", 0, 1)>>, <<4>>),
     Node(<<>>, <<>>) >>

\* a node that defers its run step, beside nodes that produce other work
GEffect ==
  << Node(<<Compute(FnInc), Run(FnAny)>>, <<3>>),
     Node(<<>>, <<3, 4>>),
     Node(<<Filter(FnAny)>>, <<4>>),
     Node(<<Barrier(1, "sampler"), Run(FnInc)>>, <<>>) >>

\* user functions that call launch() from inside a drain
GNested ==
  << Node(<<Compute(FnLaunch(3))>>, <<2>>),
     Node(<<Filter(FnLaunch(4))>>, <<4>>),
     Node(<<Compute(FnInc), Run(FnLaunch(4))>>, <<4>>),
     Node(<<Barrier(1, "barrier"), Compute(FnAny)>>, <<>>) >>

\* many barrier and sampler layers with ids in no particular order
GHeap ==
  << Node(<<>>, <<2, 3, 4, 5, 6>>),
     Node(<<Barrier(3, "sampler")>>, <<>>),
     Node(<<Barrier(5, "barrier")>>, <<6>>),
     Node(<<Barrier(2, "barrier"), Barrier(6, "sampler")>>, <<>>),
     Node(<<Barrier(1, "sampler"), Barrier(7, "barrier")>>, <<>>),
     Node(<<Barrier(4, "barrier")>>, <<>>) >>

\* as GSample, the combine node 4 behind another combine node, older or not
GSampleVia ==
  << Node(<<>>, <<2, 3>>),
     Node(<<Barrier(1, "sampler"), Mov("store", "stack", 1, 0)>>, <<>>),
     Node(<<Barrier(3, "barrier")>>, <<4>>),
     Node(<<Barrier(2, "barrier"), Compute(FnInc),
            Mov("stack", "store", 0, 1)>>, <<>>) >>

\* as GSample, the combine node 4 behind a node that defers a run step
GSampleLate ==
  << Node(<<>>, <<2, 3>>),
     Node(<<Barrier(1, "sampler"), Mov("store", "stack", 1, 0)>>, <<>>),
     Node(<<Run(FnInc)>>, <<4>>),
     Node(<<Barrier(2, "barrier"), Mov("stack", "store", 0, 1)>>, <<>>) >>

\* check and filter steps in front of writes to the stores
GSkip ==
  << Node(<<Filter(FnPos), Mov("stack", "store", 0, 1)>>, <<2>>),
     Node(<<Compute(FnAny), Check("defined", 0),
            Mov("stack", "store", 0, 2), Mov("store", "a", 1, 0)>>, <<3>>),
     Node(<<Check("changed", 1), Mov("value", "store", 7, 2)>>, <<>>) >>

\* two paths with different values into a node with a step before its barrier
GCoalesce ==
  << Node(<<>>, <<2, 3>>),
     Node(<<Compute(FnInc)>>, <<4>>),
     Node(<<>>, <<4>>),
     Node(<<Compute(FnInc), Barrier(1, "barrier"),
            Mov("stack", "store", 0, 1)>>, <<5>>),
     Node(<<>>, <<>>) >>

Graphs ==
  {GDerive, GDiamond, GLate, GSample, GSampleVia, GSampleLate, GEffect,
   GNested, GHeap, GSkip, GCoalesce}


(* ------------------------------- state --------------------------------- *)

VARIABLES
  graph,          \* the graph under propagation (fixed by Init)
  refs,           \* ref cells: ref id -> current
  heap,           \* the shared skew heap
  queue,          \* the five buckets
  mem,            \* the QueueItem objects of the linked lists
  barriers,       \* the Set of barrier ids
  alreadyStarted,
  frames,         \* active calls of exec(), innermost last
  nextUid,        \* identity given to the next Layer object
  ev,             \* the operation that led to this state (history)
  h,              \* what happened since the last launch from outside (history)
  idCell,         \* the `id` variable of each closure stringRefcount() made
  issued,         \* the ids each exported generator has returned (history)
  idHeap          \* a skew heap of barrier layers with generated ids

idvars == <<idCell, issued, idHeap>>

vars ==
  <<graph, refs, heap, queue, mem, barriers, alreadyStarted, frames,
    nextUid, ev, h, idCell, issued, idHeap>>

QState == [queue |-> queue, mem |-> mem, heap |-> heap]

\* a call of exec(): its locals
\*   pc = "loop"  about to evaluate deleteMin() in the while condition
\*   pc = "steps" inside the for loop over graph.seq, or right after it
\*   pc = "call"  inside a user function that called launch(), which runs exec()
NewFrame(last) ==
  [lastStartedState |-> last, stop |-> FALSE, pc |-> "loop", value |-> NoLayer,
   stepn |-> 0, skip |-> FALSE, fail |-> FALSE,
   pending |-> [throws |-> FALSE, ret |-> Undefined]]

Top == frames[Len(frames)]
SetTop(fr) == [frames EXCEPT ![Len(frames)] = fr]
Running == frames # <<>>

CurNode(fr) == graph[fr.value.stack[1].node]
CurStep(fr) == CurNode(fr).seq[fr.stepn + 1]
InSteps(fr) ==
  fr.pc = "steps" /\ fr.stepn < Len(CurNode(fr).seq) /\ ~fr.stop

(* ------------------------------ history -------------------------------- *)

\* the barrier ids of the graph
BarrierIds ==
  UNION {{graph[n].seq[k].data.barrierID : k \in 1..Len(graph[n].seq)} :
           n \in 1..Len(graph)} \ {0}

Event(op, layer, n, flag) == [op |-> op, layer |-> layer, n |-> n, flag |-> flag]

Uids(layers) == {L.uid : L \in layers}

NoHistory ==
  [arrived |-> [b \in 0..7 |-> 0],   \* arrivals at the barrier step of id b
   fired |-> [b \in 0..7 |-> 0],     \* passes of the barrier step of id b
   late |-> [b \in 0..7 |-> 0],      \* arrivals after a pass
   seeds |-> 0,                      \* layers seeded by the launch from outside
   args |-> NoArgs,                  \* the arguments of that launch
   nested |-> 0,                     \* launch() calls made inside the drain
   upserted |-> {},                  \* layers seeded with upsert, still queued
   joined |-> {},                    \* <<layer, drains active>> at such a launch
   inherited |-> {},                 \* <<layer, drain>>: queued when drain began
   emptied |-> {},                   \* buckets that a dequeue has left empty
   thrown |-> {},                    \* stacks whose user function threw
   owed |-> {},                      \* layers queued at a throw, still queued
   done |-> {},                      \* <<stack, step>> executed
   redone |-> {},                    \* <<stack, step>> executed again
   born |-> {},                      \* <<stack, node>> delivered
   dropped |-> {},                   \* stacks dropped by barrier coalescing
   coalesced |-> {},                 \* <<stack, step, barrier id, value>> dropped
   first |-> [b \in 0..7 |-> 0],     \* the stack last registered for id b
   stopped |-> {},                   \* <<stack, step>> that set skip or fail
   skipped |-> {},                   \* <<stack, step>> that set skip
   frozen |-> [sid |-> 0, refs |-> <<>>],  \* the ref cells at the last skip
   fanned |-> {},                    \* stacks whose node fanned out
   refanned |-> {}]                  \* stacks whose node fanned out again

\* a step of the running layer is executed
Did(hh, fr) ==
  LET what == <<fr.value.stack[1].sid, fr.stepn>>
  IN  [hh EXCEPT !.done = @ \cup {what},
                 !.redone = IF what \in hh.done THEN @ \cup {what} ELSE @]

\* the step that frame fr has just left set local.skip or local.fail
Ended(hh, fr) ==
  LET what == <<fr.value.stack[1].sid, fr.stepn - 1>>
  IN  IF fr.skip
      THEN [hh EXCEPT !.stopped = @ \cup {what},
                      !.skipped = @ \cup {what},
                      !.frozen = [sid |-> what[1], refs |-> refs]]
      ELSE IF fr.fail
      THEN [hh EXCEPT !.stopped = @ \cup {what}]
      ELSE hh

\* the stacks created for the units or nodes of sequence ns, from uid on
Born(ns, uid) == {<<uid + i - 1, ns[i]>> : i \in 1..Len(ns)}

(* ------------------------------- launch -------------------------------- *)

getGraph(unit) == unit

launchPayload(args) == IF args.hasTarget THEN args.params ELSE args.payload
launchUpsert(args) == IF args.hasTarget THEN args.defer ELSE args.upsert

\* a seeding loop that enqueues at priority 'child'
RECURSIVE launchSeedChild(_, _, _, _)
launchSeedChild(Q, args, i, uid) ==
  IF i > Len(args.units) THEN Q
  ELSE CHOOSE done \in
         {launchSeedChild(pushed, args, i + 1, uid + 1) :
            pushed \in {pushFirstHeapItem(Q, "child", getGraph(args.units[i]),
                                          <<>>, launchPayload(args)[i], uid)}} :
         TRUE

\* the seeding loop of launch, from the i-th unit on (the queue after one
\* push is bound as a value before the loop goes on with it)
RECURSIVE launchSeed(_, _, _, _)
launchSeed(Q, args, i, uid) ==
  IF i > Len(args.units) THEN Q
  ELSE CHOOSE done \in
         {launchSeed(pushed, args, i + 1, uid + 1) :
            pushed \in {pushFirstHeapItem(Q, "pure", getGraph(args.units[i]),
                                          <<>>, launchPayload(args)[i], uid)}} :
         TRUE

\* a launch that goes on to exec() whatever upsert says
launchAlwaysDrains(args, started) == TRUE

\* launch goes on to exec() unless `upsert && alreadyStarted`
launchDrains(args, started) == ~(launchUpsert(args) /\ started)

\* what a caller outside any drain may pass to launch
ArrayUnits ==
  {<<m, n>> : m \in 1..Len(graph), n \in 1..Len(graph)}
TopLevelArgs ==
  LET plain ==
        {LaunchArgs(n, p, u) : n \in 1..Len(graph), p \in Payloads, u \in BOOLEAN}
      arrays ==
        {[hasTarget |-> FALSE, isArray |-> TRUE, units |-> us,
          payload |-> <<0, MaxPayload>>, upsert |-> FALSE,
          params |-> <<>>, defer |-> FALSE] : us \in ArrayUnits}
      described ==
        {[hasTarget |-> TRUE, isArray |-> FALSE, units |-> <<n>>,
          payload |-> <<Undefined>>, upsert |-> FALSE,
          params |-> <<p>>, defer |-> TRUE] : n \in 1..Len(graph), p \in Payloads}
  IN  plain \cup arrays \cup described

Launch ==
  /\ ~Running
  /\ \E args \in TopLevelArgs :
       LET Q == launchSeed(QState, args, 1, 1)
       IN  /\ queue' = Q.queue /\ mem' = Q.mem /\ heap' = Q.heap
           /\ nextUid' = 1 + Len(args.units)
           /\ IF launchDrains(args, alreadyStarted)
              THEN /\ frames' = <<NewFrame(alreadyStarted)>>
                   /\ alreadyStarted' = TRUE
              ELSE UNCHANGED <<frames, alreadyStarted>>
           /\ ev' = Event("launch", NoLayer, Len(args.units), launchUpsert(args))
           /\ h' = [NoHistory EXCEPT !.seeds = Len(args.units),
                                     !.args = args,
                                     !.born = Born(args.units, 1)]
  /\ UNCHANGED <<graph, refs, barriers>>
  /\ UNCHANGED idvars

(* -------------------------------- exec --------------------------------- *)

\* `while ((value = deleteMin()))` with a layer: the locals of one iteration
Dequeue ==
  /\ Running /\ Top.pc = "loop"
  /\ LET d == deleteMin(QState)
     IN  /\ d.found
         /\ queue' = d.Q.queue /\ mem' = d.Q.mem /\ heap' = d.Q.heap
         /\ frames' = SetTop([Top EXCEPT !.pc = "steps", !.value = d.value,
                                         !.stepn = d.value.idx,
                                         !.skip = FALSE, !.fail = FALSE])
         /\ ev' = Event("dequeue", d.value, deleteMinScan(queue),
                        d.value.uid \in h.owed)
         /\ h' = [h EXCEPT
                   !.owed = @ \ {d.value.uid},
                   !.upserted = @ \ {d.value.uid},
                   !.emptied =
                      @ \cup {i \in 0..4 : queue[i].size > 0 /\ d.Q.queue[i].size = 0}]
  /\ UNCHANGED <<graph, refs, barriers, alreadyStarted, nextUid>>
  /\ UNCHANGED idvars

\* a step end that does not set meta.stop
EndStepNoStop(fr) == [fr EXCEPT !.stepn = fr.stepn + 1]

\* the end of a step that did not leave the loop:
\* `meta.stop = local.fail || local.skip`, then stepn++
EndStep(fr) ==
  [fr EXCEPT !.stop = fr.fail \/ fr.skip, !.stepn = fr.stepn + 1]

\* a barrier step that lets every layer through
barrierNeverArrives(fr) == FALSE

\* a barrier step is arrived at, rather than resumed from
barrierArrives(fr) ==
  fr.stepn # fr.value.idx \/ fr.value.type # CurStep(fr).data.priority

\* a registry that never reports an id
barrierNeverPending(id) == FALSE

\* `barriers.has(id)`
barrierPending(id) == id \in barriers

\* a registration that is lost
barrierForget(id) == barriers

\* `barriers.add(id)`
barrierAdd(id) == barriers \cup {id}

\* a registry that never forgets an id
barrierKeep(id) == barriers

\* `barriers.delete(id)`
barrierDelete(id) == barriers \ {id}

StepBarrier ==
  /\ Running /\ InSteps(Top) /\ CurStep(Top).type = "barrier"
  /\ LET fr == Top
         id == CurStep(fr).data.barrierID
         priority == CurStep(fr).data.priority
         seen == [h EXCEPT !.arrived[id] = @ + 1,
                           !.late[id] = IF h.fired[id] > 0 THEN @ + 1 ELSE @]
     IN  IF barrierArrives(fr)
         THEN /\ IF ~barrierPending(id)
                 THEN LET Q == pushHeap(QState, fr.stepn, fr.value.stack,
                                        priority, id, nextUid)
                      IN  /\ barriers' = barrierAdd(id)
                          /\ queue' = Q.queue /\ mem' = Q.mem /\ heap' = Q.heap
                          /\ nextUid' = nextUid + 1
                          /\ ev' = Event("suspend", fr.value, id, TRUE)
                 ELSE /\ UNCHANGED <<barriers, queue, mem, heap, nextUid>>
                      /\ ev' = Event("coalesce", fr.value, id, FALSE)
              \* continue mem
              /\ frames' = SetTop([fr EXCEPT !.pc = "loop", !.value = NoLayer])
              /\ h' = IF barrierPending(id)
                      THEN [seen EXCEPT
                              !.dropped = @ \cup {fr.value.stack[1].sid},
                              !.coalesced = @ \cup
                                {<<fr.value.stack[1].sid, fr.stepn, id,
                                   fr.value.stack[1].value>>}]
                      ELSE [seen EXCEPT !.first[id] = fr.value.stack[1].sid]
         ELSE /\ barriers' = barrierDelete(id)
              /\ frames' = SetTop(EndStep(fr))
              /\ ev' = Event("pass", fr.value, id, id \in barriers)
              /\ h' = Did([h EXCEPT !.fired[id] = @ + 1], fr)
              /\ UNCHANGED <<queue, mem, heap, nextUid>>
  /\ UNCHANGED <<graph, refs, alreadyStarted>>
  /\ UNCHANGED idvars

readRef(ref) == refs[ref]

movValue(fr) ==
  LET data == CurStep(fr).data
      stack == fr.value.stack[1]
  IN  CASE data.from = "stack" -> stack.value
        [] data.from = "a" -> stack.a
        [] data.from = "b" -> stack.b
        [] data.from = "value" -> data.store
        [] data.from = "store" -> readRef(CurNode(fr).reg[data.store])
        [] OTHER -> Undefined

StepMov ==
  /\ Running /\ InSteps(Top) /\ CurStep(Top).type = "mov"
  /\ LET fr == Top
         data == CurStep(fr).data
         value == movValue(fr)
         moved ==
           CASE data.to = "stack" -> [fr EXCEPT !.value.stack[1].value = value]
             [] data.to = "a" -> [fr EXCEPT !.value.stack[1].a = value]
             [] data.to = "b" -> [fr EXCEPT !.value.stack[1].b = value]
             [] OTHER -> fr
     IN  /\ refs' = IF data.to = "store"
                    THEN [refs EXCEPT ![CurNode(fr).reg[data.target]] = value]
                    ELSE refs
         /\ frames' = SetTop(EndStep(moved))
         /\ ev' = Event("mov", fr.value, fr.stepn, data.to = "store")
         /\ h' = Did(h, fr)
  /\ UNCHANGED <<graph, heap, queue, mem, barriers, alreadyStarted, nextUid>>
  /\ UNCHANGED idvars

checkSkip(fr) ==
  LET data == CurStep(fr).data
      stack == fr.value.stack[1]
  IN  CASE data.type = "defined" -> stack.value = Undefined
        [] data.type = "changed" ->
             stack.value = readRef(CurNode(fr).reg[data.store])
        [] OTHER -> fr.skip

StepCheck ==
  /\ Running /\ InSteps(Top) /\ CurStep(Top).type = "check"
  /\ LET checked == EndStep([Top EXCEPT !.skip = checkSkip(Top)])
     IN  /\ frames' = SetTop(checked)
         /\ h' = Ended(Did(h, Top), checked)
  /\ ev' = Event("check", Top.value, Top.stepn, checkSkip(Top))
  /\ UNCHANGED <<graph, refs, heap, queue, mem, barriers, alreadyStarted,
                 nextUid>>
  /\ UNCHANGED idvars


\* a run step that is executed wherever it is reached
runNeverDefers(fr) == FALSE

\* a run step reached at another priority, or not as the first step
runDefers(fr) == fr.stepn # fr.value.idx \/ fr.value.type # "effect"

StepRunDefer ==
  /\ Running /\ InSteps(Top) /\ CurStep(Top).type = "run" /\ runDefers(Top)
  /\ LET fr == Top
         Q == pushHeap(QState, fr.stepn, fr.value.stack, "effect", 0, nextUid)
     IN  /\ queue' = Q.queue /\ mem' = Q.mem /\ heap' = Q.heap
         /\ nextUid' = nextUid + 1
         \* continue mem
         /\ frames' = SetTop([fr EXCEPT !.pc = "loop", !.value = NoLayer])
         /\ ev' = Event("defer", fr.value, fr.stepn, FALSE)
  /\ UNCHANGED <<graph, refs, barriers, alreadyStarted, h>>
  /\ UNCHANGED idvars

\* a tryRun that swallows the exception without setting local.fail
tryRunNoFail(fr, out) ==
  [result |-> IF out.throws THEN Undefined ELSE out.ret, fail |-> fr.fail]

\* tryRun: what the step gets back, and local.fail
tryRun(fr, out) ==
  [result |-> IF out.throws THEN Undefined ELSE out.ret,
   fail |-> fr.fail \/ out.throws]

\* tryRun has returned to its filter / compute / run step
AfterFn(fr, out) ==
  LET r == tryRun(fr, out)
      failed == [fr EXCEPT !.fail = r.fail]
  IN  EndStep(IF CurStep(fr).type = "filter"
              THEN [failed EXCEPT !.skip = ~Truthy(r.result)]
              ELSE [failed EXCEPT !.value.stack[1].value = r.result])

CallsFn(fr) ==
  /\ InSteps(fr)
  /\ \/ CurStep(fr).type \in {"filter", "compute"}
     \/ CurStep(fr).type = "run" /\ ~runDefers(fr)

Pending(out) == [throws |-> out.throws, ret |-> out.ret]

\* a user function that returns or throws without calling launch
StepFn ==
  /\ Running /\ CallsFn(Top)
  /\ \E out \in FnOutcomes(CurStep(Top).data.fn, Top.value.stack[1].value) :
       /\ ~out.calls
       /\ frames' = SetTop(AfterFn(Top, Pending(out)))
       /\ ev' = Event(IF out.throws THEN "throw" ELSE "fn", Top.value,
                      Top.stepn, CurStep(Top).type = "run")
       /\ h' = Ended(IF out.throws
                     THEN [Did(h, Top) EXCEPT
                             !.thrown = @ \cup {Top.value.stack[1].sid},
                             !.owed = @ \cup Uids(QueuedLayers(QState))]
                     ELSE Did(h, Top),
                     AfterFn(Top, Pending(out)))
  /\ UNCHANGED <<graph, refs, heap, queue, mem, barriers, alreadyStarted,
                 nextUid>>
  /\ UNCHANGED idvars

\* a user function that calls launch(unit, x, upsert) and returns x
StepFnLaunch ==
  /\ Running /\ CallsFn(Top)
  /\ \E out \in FnOutcomes(CurStep(Top).data.fn, Top.value.stack[1].value) :
       /\ out.calls
       /\ LET Q == launchSeed(QState, out.args, 1, nextUid)
              seeded == nextUid..(nextUid + Len(out.args.units) - 1)
          IN  /\ queue' = Q.queue /\ mem' = Q.mem /\ heap' = Q.heap
              /\ nextUid' = nextUid + Len(out.args.units)
              /\ IF launchDrains(out.args, alreadyStarted)
                 THEN /\ frames' =
                           Append(SetTop([Top EXCEPT !.pc = "call",
                                                     !.pending = Pending(out)]),
                                  NewFrame(alreadyStarted))
                      /\ alreadyStarted' = TRUE
                      /\ h' = [Did(h, Top) EXCEPT
                                !.nested = @ + 1,
                                !.born = @ \cup Born(out.args.units, nextUid),
                                !.inherited = @ \cup
                                  (Uids(QueuedLayers(QState))
                                     \X {Len(frames) + 1})]
                 ELSE /\ frames' = SetTop(AfterFn(Top, Pending(out)))
                      /\ UNCHANGED alreadyStarted
                      /\ h' = Ended([Did(h, Top) EXCEPT
                                       !.nested = @ + 1,
                                       !.born = @ \cup
                                         Born(out.args.units, nextUid),
                                       !.upserted = @ \cup seeded,
                                       !.joined = @ \cup
                                         (seeded \X {Len(frames)})],
                                    AfterFn(Top, Pending(out)))
              /\ ev' = Event("nested", Top.value, Len(frames), out.args.upsert)
  /\ UNCHANGED <<graph, refs, barriers>>
  /\ UNCHANGED idvars

\* a fan-out that enqueues nothing
fanOutNone(Q, fr, i, uid) == Q

\* the children of a node that completed, from the i-th on
RECURSIVE fanOut(_, _, _, _)
fanOut(Q, fr, i, uid) ==
  IF i > Len(CurNode(fr).next) THEN Q
  ELSE CHOOSE done \in
         {fanOut(pushed, fr, i + 1, uid + 1) :
            pushed \in {pushFirstHeapItem(Q, "child", CurNode(fr).next[i],
                                          fr.value.stack,
                                          fr.value.stack[1].value, uid)}} :
         TRUE

\* after the for loop: `if (!meta.stop)` fan out, then `meta.stop = false`
FanOut ==
  /\ Running /\ Top.pc = "steps" /\ ~InSteps(Top)
  /\ LET fr == Top
         Q == IF fr.stop THEN QState ELSE fanOut(QState, fr, 1, nextUid)
     IN  /\ queue' = Q.queue /\ mem' = Q.mem /\ heap' = Q.heap
         /\ nextUid' = IF fr.stop THEN nextUid
                       ELSE nextUid + Len(CurNode(fr).next)
         /\ frames' = SetTop([fr EXCEPT !.pc = "loop", !.stop = FALSE,
                                        !.value = NoLayer])
         /\ ev' = Event("fanout", fr.value,
                        IF fr.stop THEN 0 ELSE Len(CurNode(fr).next), fr.stop)
         /\ h' = IF fr.stop THEN h
                 ELSE LET sid == fr.value.stack[1].sid
                      IN  [h EXCEPT
                             !.born = @ \cup Born(CurNode(fr).next, nextUid),
                             !.fanned = @ \cup {sid},
                             !.refanned = IF sid \in h.fanned
                                          THEN @ \cup {sid} ELSE @]
  /\ UNCHANGED <<graph, refs, barriers, alreadyStarted>>
  /\ UNCHANGED idvars

\* an exec that leaves the flag set
execKeepStarted(fr) == TRUE

\* `alreadyStarted = lastStartedState`
execRestore(fr) == fr.lastStartedState

\* a drain loop that looks at the child and pure buckets only
drainEndsEarly(Q) == Q.queue[0].size = 0 /\ Q.queue[1].size = 0

\* the while condition fails: deleteMin() returns undefined
drainEnds(Q) == ~deleteMin(Q).found

\* deleteMin() found nothing: exec returns, and with it launch and, for a
\* nested call, the user function that made it
ExecReturn ==
  /\ Running /\ Top.pc = "loop"
  /\ drainEnds(QState)
  /\ alreadyStarted' = execRestore(Top)
  /\ LET rest == SubSeq(frames, 1, Len(frames) - 1)
         caller == AfterFn([rest[Len(rest)] EXCEPT !.pc = "steps"],
                           rest[Len(rest)].pending)
     IN  IF rest = <<>>
         THEN frames' = rest /\ h' = h
         ELSE /\ frames' = [rest EXCEPT ![Len(rest)] = caller]
              /\ h' = Ended(h, caller)
  /\ ev' = Event("exit", NoLayer, Len(frames), Top.lastStartedState)
  /\ UNCHANGED <<graph, refs, heap, queue, mem, barriers, nextUid>>
  /\ UNCHANGED idvars

(* ---------------------------- id generators ---------------------------- *)
\* A JavaScript string is the sequence of its UTF-16 code units.

\* the closures made by the two calls of stringRefcount(), and the exported
\* names bound to them
Closures == {1, 2}
Generators == {"unit", "step"}

\* both exported names bound to one closure
closureShared(g) == 1

\* nextUnitID = stringRefcount(), nextStepID = stringRefcount()
closureOf(g) == IF g = "unit" THEN 1 ELSE 2

\* the digit d of radix 36 as a code unit: "0".."9", "a".."z"
digit36(d) == IF d < 10 THEN 48 + d ELSE 97 + (d - 10)

\* Number.prototype.toString(36) of a positive integer
RECURSIVE toString36(_)
toString36(n) ==
  IF n < 36 THEN <<digit36(n)>>
  ELSE toString36(n \div 36) \o <<digit36(n % 36)>>

\* the closure body `(++id).toString(36)`, called through exported name g
NextID(g) ==
  /\ idCell' = [idCell EXCEPT ![closureOf(g)] = @ + 1]
  /\ issued' = [issued EXCEPT
                  ![g] = Append(@, toString36(idCell[closureOf(g)] + 1))]

\* x > y on two strings: the first code unit that differs decides, and a
\* string is greater than its proper prefixes
StrGreater(x, y) ==
  \E k \in 1..Len(x) :
    /\ \A j \in 1..(k - 1) : j <= Len(y) /\ x[j] = y[j]
    /\ (k > Len(y) \/ x[k] > y[k])

\* the swap condition of merge on layers whose ids are strings
mergeSwapStr(a, b) ==
  LET isSameType == a[1].type = b[1].type
  IN  \/ (isSameType /\ StrGreater(a[1].id, b[1].id))
      \/ (~isSameType /\ a[1].type = "sampler")

\* merge on layers whose ids are strings
RECURSIVE mergeStr(_, _)
mergeStr(a, b) ==
  IF a = <<>> THEN b
  ELSE IF b = <<>> THEN a
  ELSE LET w == IF mergeSwapStr(a, b) THEN b ELSE a
           l == IF mergeSwapStr(a, b) THEN a ELSE b
           ret == mergeStr(w[3], l)
       IN  HeapNode(w[1], ret, w[2])

kernelvars ==
  <<graph, refs, heap, queue, mem, barriers, alreadyStarted, frames,
    nextUid, ev, h>>

NextUnitID ==
  /\ Len(issued["unit"]) < MaxUnitCalls
  /\ NextID("unit")
  /\ UNCHANGED idHeap
  /\ UNCHANGED kernelvars

NextStepID ==
  /\ Len(issued["step"]) < MaxStepCalls
  /\ NextID("step")
  /\ UNCHANGED idHeap
  /\ UNCHANGED kernelvars

\* the graph being built (its step ids handed out), a layer arrives at a
\* barrier step of priority 'barrier' whose barrierID was taken from
\* nextStepID and is not registered: pushHeap melds it into the heap
IdPush ==
  /\ Len(issued["step"]) = MaxStepCalls
  /\ HeapSize(idHeap) < MaxIdHeap
  /\ \E k \in 1..Len(issued["step"]) :
       /\ \A L \in HeapLayers(idHeap) : L.id # issued["step"][k]
       /\ idHeap' = mergeStr(idHeap,
                             HeapNode([NoLayer EXCEPT !.type = "barrier",
                                                      !.id = issued["step"][k]],
                                      <<>>, <<>>))
  /\ UNCHANGED <<idCell, issued>>
  /\ UNCHANGED kernelvars

\* deleteMin pops the root of the heap
IdPop ==
  /\ idHeap # <<>>
  /\ idHeap' = mergeStr(idHeap[2], idHeap[3])
  /\ UNCHANGED <<idCell, issued>>
  /\ UNCHANGED kernelvars

(* ---------------------------- specification ---------------------------- *)

Init ==
  /\ graph \in Graphs
  /\ refs = [r \in RefIds |-> 0]
  /\ heap = <<>>
  /\ queue = [i \in 0..4 |-> EmptyBucket]
  /\ mem = <<>>
  /\ barriers = {}
  /\ alreadyStarted = FALSE
  /\ frames = <<>>
  /\ nextUid = 1
  /\ ev = Event("init", NoLayer, 0, FALSE)
  /\ h = NoHistory
  /\ idCell = [c \in Closures |-> 0]
  /\ issued = [g \in Generators |-> <<>>]
  /\ idHeap = <<>>

Next ==
  \/ Launch
  \/ Dequeue
  \/ StepBarrier
  \/ StepMov
  \/ StepCheck
  \/ StepRunDefer
  \/ StepFn
  \/ StepFnLaunch
  \/ FanOut
  \/ ExecReturn

Spec == Init /\ [][Next]_vars

\* exec and launch run to completion: the single thread never stops midway
LiveSpec == Spec /\ WF_vars(Next)

\* the id generators and a heap of layers that carry their ids, no
\* propagation going on
IdInit == Init /\ graph = GDiamond

IdNext ==
  \/ NextUnitID
  \/ NextStepID
  \/ IdPush
  \/ IdPop

IdSpec == IdInit /\ [][IdNext]_vars


(* ------------------------------ properties ----------------------------- *)

Queued == QueuedLayers(QState)

\* C1: a layer is dequeued only when the queue holds no layer of a class with
\* a smaller number: of two queued layers of classes p1 < p2 the one of class
\* p1 is dequeued, and its steps started, first.  This is so in every drain,
\* nested ones included.
C1_LowerClassFirst ==
  ev.op = "dequeue" =>
    \A L \in Queued : getPriority(L.type) >= getPriority(ev.layer.type)

\* a nested drain dequeues a pure layer while a suspended barrier or effect
\* layer waits
C1_Witness ==
  /\ ev.op = "dequeue" /\ Len(frames) >= 2
  /\ ev.layer.type = "pure"
  /\ \E L \in Queued : L.type \in {"barrier", "sampler", "effect"}


\* the ids of barrier steps of priority "barrier" that begin a node's seq
CombineIds ==
  {graph[n].seq[1].data.barrierID :
     n \in {m \in 1..Len(graph) :
              /\ graph[m].seq # <<>>
              /\ graph[m].seq[1].type = "barrier"
              /\ graph[m].seq[1].data.priority = "barrier"}}

\* a propagation started by one launch of one unit, with no launch from
\* inside, has ended
SingleLaunchEnded ==
  ~Running /\ ev.op = "exit" /\ h.seeds = 1 /\ h.nested = 0

\* C2 as stated: after a propagation started by a single launch, a combine
\* node that was delivered to has run its post-barrier steps exactly once.
C2_OncePerPropagation ==
  SingleLaunchEnded =>
    \A b \in CombineIds : h.arrived[b] >= 1 => h.fired[b] = 1

\* C2, amended: after a propagation started by a single launch, a combine
\* node has run its post-barrier steps exactly once if every layer delivered
\* to it arrived before its pending barrier layer was dequeued, however many
\* arrived.
C2_OncePerPendingLayer ==
  SingleLaunchEnded =>
    \A b \in CombineIds :
      (h.arrived[b] >= 1 /\ h.late[b] = 0) => h.fired[b] = 1

\* two or more paths delivered to a combine node, which fired once
C2_Witness ==
  /\ SingleLaunchEnded
  /\ \E b \in CombineIds :
       h.arrived[b] >= 2 /\ h.late[b] = 0 /\ h.fired[b] = 1


\* a layer of barrier id b was dequeued and is about to pass its barrier step
Resuming(b) ==
  /\ Running /\ InSteps(Top)
  /\ Top.value.id = b /\ Top.stepn = Top.value.idx
  /\ CurStep(Top).type = "barrier" /\ ~barrierArrives(Top)

\* C3: a barrier id is in the registry exactly while a layer carrying it is
\* in the queue; the dequeue of that layer and the pass of its barrier step,
\* between which no other code runs, count as one moment.
C3_RegistryIffQueued ==
  \A b \in BarrierIds :
    b \in barriers <=> ((\E L \in Queued : L.id = b) \/ Resuming(b))

\* a barrier step was passed and its id removed while another id is pending
C3_Witness ==
  /\ ev.op = "pass" /\ ev.flag
  /\ ev.n \notin barriers
  /\ \E L \in Queued : L.id # 0 /\ L.id \in barriers

\* C4 as stated: at most one exec drain loop is ever active.
C4_SingleDrain == Len(frames) <= 1

\* C4, amended: a nested launch with upsert = true only appends its seed
\* layers and returns without entering the drain loop; a nested launch
\* with upsert false or absent enters a drain loop of its own, so that
\* one drain loop per such call in progress is active besides the outermost.
C4_DrainUnlessUpsert ==
  ev.op = "nested" =>
    /\ Len(frames) = ev.n + (IF ev.flag THEN 0 ELSE 1)
    /\ \A k \in 1..(Len(frames) - 1) : frames[k].pc = "call"

\* an upsert launch made from inside a nested drain: two drains stay active
C4_Witness == ev.op = "nested" /\ ev.flag /\ Len(frames) = 2


\* C5, as stated: a layer seeded by a launch with upsert = true is dequeued
\* by a drain loop that was already active when that launch was made.
C5_OuterDrainExecutes ==
  ev.op = "dequeue" =>
    \A p \in h.joined : p[1] = ev.layer.uid => Len(frames) <= p[2]

\* C5, amended: a launch with upsert = true made while a drain is active
\* starts no drain: it returns to its caller with the seeds appended to the
\* 'pure' bucket; alreadyStarted is true as long as a drain runs; the seeds
\* stay in the 'pure' bucket until a running drain (the one active at the
\* launch or one nested in it) dequeues them, which has happened for all of
\* them when the outermost launch returns.
C5_UpsertJoinsDrain ==
  /\ Running => alreadyStarted
  /\ (ev.op = "nested" /\ ev.flag) =>
       /\ Len(frames) = ev.n
       /\ Top.value.uid = ev.layer.uid /\ Top.pc = "steps"
       /\ LET pure == BucketList(QState, 1)
          IN  /\ pure # <<>>
              /\ pure[Len(pure)].uid = nextUid - 1
              /\ pure[Len(pure)].idx = 0
              /\ pure[Len(pure)].stack[1].node =
                   CurNode(Top).seq[Top.stepn].data.fn.unit
              /\ Len(pure[Len(pure)].stack) = 1
              /\ (nextUid - 1) \in h.upserted
  /\ \A u \in h.upserted : \E L \in Range(BucketList(QState, 1)) : L.uid = u
  /\ ~Running => h.upserted = {}

\* a layer seeded with upsert = true from the outermost drain is dequeued by
\* a drain nested in it
C5_Witness ==
  /\ ev.op = "dequeue" /\ <<ev.layer.uid, 1>> \in h.joined
  /\ Len(frames) = 2 /\ alreadyStarted

\* the stack, or one of its parents, belongs to a node whose function threw
Thrown(stack) == \E k \in 1..Len(stack) : stack[k].sid \in h.thrown

\* C6: when a filter, compute or run function throws, the drain goes on in
\* the same exec call with local.fail and meta.stop set; nothing more happens
\* to that node than leaving the step loop without fan-out; no layer of that
\* node or of a child of it is enqueued; and every layer that was queued at
\* the throw has been dequeued when the outermost launch returns.
C6_ThrowStopsOnlyItsNode ==
  /\ ev.op = "throw" =>
       /\ Running /\ Top.pc = "steps" /\ Top.value.uid = ev.layer.uid
       /\ Top.fail /\ Top.stop
  /\ (ev.op # "throw" /\ Thrown(ev.layer.stack)) =>
       (ev.op = "fanout" /\ ev.n = 0)
  /\ \A L \in Queued : ~Thrown(L.stack)
  /\ ~Running => h.owed = {}

\* a layer that was queued when a function threw is dequeued
C6_Witness == ev.op = "dequeue" /\ ev.flag /\ h.thrown # {}

\* the FIFO priority classes
FifoClasses == {0, 1, 4}

\* C7: a layer dequeued from the child, pure or effect bucket was enqueued
\* before every layer that is left in that bucket.
C7_FifoWithinClass ==
  (ev.op = "dequeue" /\ ev.n \in FifoClasses) =>
    /\ getPriority(ev.layer.type) = ev.n
    /\ \A L \in Range(BucketList(QState, ev.n)) : L.uid > ev.layer.uid

\* a dequeue from a bucket that had run empty, was refilled and is not empty
C7_Witness ==
  /\ ev.op = "dequeue" /\ ev.n \in FifoClasses
  /\ ev.n \in h.emptied
  /\ BucketList(QState, ev.n) # <<>>

\* x comes before y in the order of the heap
HeapBefore(x, y) ==
  \/ x.type = "barrier" /\ y.type = "sampler"
  \/ x.type = y.type /\ x.id < y.id

\* C8: the root of the shared heap is a minimum of the heap under the
\* (type, id) order, barrier before sampler and smaller id first, and so is
\* every layer dequeued from the heap with respect to the layers left in it.
C8_HeapRootIsMin ==
  /\ heap # <<>> => \A L \in HeapLayers(heap) : ~HeapBefore(L, heap[1])
  /\ (ev.op = "dequeue" /\ ev.n \notin FifoClasses) =>
       \A L \in HeapLayers(heap) : ~HeapBefore(L, ev.layer)

\* a barrier layer is dequeued ahead of a sampler layer of smaller id and of
\* a barrier layer of larger id
C8_Witness ==
  /\ ev.op = "dequeue" /\ ev.layer.type = "barrier"
  /\ \E L \in HeapLayers(heap) : L.type = "sampler" /\ L.id < ev.layer.id
  /\ \E L \in HeapLayers(heap) : L.type = "barrier" /\ L.id > ev.layer.id

\* C9: a run step that defers pushes one layer at the tail of the effect
\* bucket, with the cursor on the run step and the same stack; a run function
\* is called only when no child, pure, barrier or sampler layer is queued;
\* and no step is executed twice on one stack.
C9_RunDeferredToEffect ==
  /\ ev.op = "defer" =>
       LET eff == BucketList(QState, 4)
       IN  /\ eff # <<>>
           /\ eff[Len(eff)] = [idx |-> ev.n, stack |-> ev.layer.stack,
                               type |-> "effect", id |-> 0, uid |-> nextUid - 1]
           /\ Cardinality({L \in Queued :
                             L.stack[1].sid = ev.layer.stack[1].sid}) = 1
           /\ Top.pc = "loop"
  /\ (Running /\ CallsFn(Top) /\ CurStep(Top).type = "run") =>
       \A L \in Queued : L.type = "effect"
  /\ h.redone = {}

\* a run function has been called on a stack that ran an earlier step before
\* it was deferred, after steps of stacks created later
C9_Witness ==
  /\ ev.op = "fn" /\ ev.flag /\ ev.n > 0
  /\ <<ev.layer.stack[1].sid, ev.n - 1>> \in h.done
  /\ \E d \in h.done : d[1] > ev.layer.stack[1].sid

\* all five buckets, the heap and the registry are empty and the flag is off
Quiescent ==
  /\ \A i \in 0..4 : queue[i] = EmptyBucket
  /\ heap = <<>> /\ mem = <<>>
  /\ barriers = {}
  /\ ~alreadyStarted

\* C10: every launch made while no drain is active returns, and whenever no
\* drain is active the engine is quiescent.
C10_LaunchReturnsQuiescent ==
  /\ [](~Running => Quiescent)
  /\ [](Running => <>(~Running))

\* a launch has returned after suspended layers were resumed
C10_Witness ==
  /\ ~Running /\ ev.op = "exit" /\ Quiescent
  /\ \E b \in BarrierIds : h.fired[b] > 0


\* the last n layers of a list
LastOf(list, n) == SubSeq(list, Len(list) - n + 1, Len(list))

\* the steps at which stack s set skip or fail
StopsOf(s) == {t[2] : t \in {u \in h.stopped : u[1] = s}}

\* C11: on a stack that barrier coalescing did not drop, no step is executed
\* twice and none after a step that set skip or fail, whatever suspensions at
\* barrier and run steps lie in between; a node fans out at most once per
\* stack, never after a skip or fail, and then enqueues one child layer per
\* element of node.next; and when the launch has returned, every such stack
\* has had each step up to its first skip or fail executed, and its fan-out
\* if there was no skip or fail.
C11_EachStepOnce ==
  /\ h.redone = {} /\ h.refanned = {}
  /\ \A d \in h.done : \A k \in StopsOf(d[1]) : d[2] <= k
  /\ \A s \in h.fanned : StopsOf(s) = {} /\ s \notin h.dropped
  /\ (ev.op = "fanout" /\ ~ev.flag) =>
       LET next == graph[ev.layer.stack[1].node].next
           children == BucketList(QState, 0)
       IN  /\ ev.n = Len(next) /\ Len(children) >= ev.n
           /\ \A i \in 1..ev.n :
                /\ LastOf(children, ev.n)[i].stack[1].node = next[i]
                /\ LastOf(children, ev.n)[i].uid = nextUid - ev.n + i - 1
  /\ ~Running =>
       \A b \in h.born :
         b[1] \notin h.dropped =>
           LET last == IF StopsOf(b[1]) = {} THEN Len(graph[b[2]].seq) - 1
                       ELSE CHOOSE k \in StopsOf(b[1]) : TRUE
           IN  /\ Cardinality(StopsOf(b[1])) <= 1
               /\ \A j \in 0..last : <<b[1], j>> \in h.done
               /\ b[1] \in h.fanned <=> StopsOf(b[1]) = {}

\* a node that was suspended at its second run step, after the first one
\* had been deferred and run, completes and fans out to its child
C11_Witness ==
  /\ ev.op = "fanout" /\ ~ev.flag /\ ev.n >= 1
  /\ ev.layer.type = "effect" /\ ev.layer.idx >= 1
  /\ <<ev.layer.stack[1].sid, 0>> \in h.done

\* the queued layers that carry barrier id b
Carrying(b) == {L \in Queued : L.id = b}

\* C12: the queue, lists and heap together, never holds two layers with the
\* same barrier id; an arrival at a barrier step whose id is registered
\* pushes nothing: the one queued layer of that id is of another stack, and
\* the arriving stack is in no queued layer and its iteration is over.
C12_OneLayerPerBarrier ==
  /\ \A b \in BarrierIds : Cardinality(Carrying(b)) <= 1
  /\ ev.op = "coalesce" =>
       /\ ev.n \in barriers
       /\ \E L \in Carrying(ev.n) : L.stack[1].sid # ev.layer.stack[1].sid
       /\ \A L \in Queued :
            \A k \in 1..Len(L.stack) : L.stack[k].sid # ev.layer.stack[1].sid
       /\ Top.pc = "loop"

\* a second arrival at a registered barrier was dropped while another
\* barrier id is queued as well
C12_Witness ==
  /\ ev.op = "coalesce"
  /\ Carrying(ev.n) # {}
  /\ \E b \in BarrierIds \ {ev.n} : Carrying(b) # {}

\* In GSample, GSampleVia and GSampleLate node 1 is the source S, node 2 the
\* observer O (sampler barrier, then a read of ref 1) and K the combine node
\* (barrier, then a write of the launched value + 1 to ref 1 as last step).
\* O's read has just run in a propagation started by launch(S, v).
ObserverRead ==
  /\ ev.op = "mov" /\ ev.layer.stack[1].node = 2
  /\ h.seeds = 1 /\ <<1, 1>> \in h.born

\* what K writes in a propagation O's stack belongs to
CombineWrites == ev.layer.stack[2].value + 1

\* the nodes whose seq ends with a write to a ref cell
CombineNodes ==
  {n \in 1..Len(graph) :
     /\ graph[n].seq # <<>>
     /\ graph[n].seq[Len(graph[n].seq)].type = "mov"
     /\ graph[n].seq[Len(graph[n].seq)].data.to = "store"}

\* K's write to its ref cell was executed in this propagation
CombineDone ==
  \E b \in h.born :
    /\ b[2] \in CombineNodes
    /\ <<b[1], Len(graph[b[2]].seq) - 1>> \in h.done

\* C13 as stated: wherever K and O are downstream of S, K has completed when
\* O reads K's ref, and O reads the value K wrote in this propagation.
C13_CombineBeforeSampler ==
  (graph \in {GSample, GSampleVia, GSampleLate} /\ ObserverRead) =>
    CombineDone /\ Top.value.stack[1].value = CombineWrites

\* C13, amended: when K is reached from S through nodes that are suspended
\* at barrier steps of priority 'barrier' at most (no sampler barrier and no
\* run step on the way), K has completed when O reads K's ref, and O reads
\* the value K wrote in this propagation.
C13_CombineBeforeSamplerPrompt ==
  (graph \in {GSample, GSampleVia} /\ ObserverRead) =>
    CombineDone /\ Top.value.stack[1].value = CombineWrites

\* O, of the smaller barrier id, has read the value that K wrote after K
\* was reached through another combine node
C13_Witness ==
  /\ graph = GSampleVia /\ ObserverRead
  /\ CombineDone /\ Top.value.stack[1].value = CombineWrites
  /\ h.fired[3] = 1 /\ h.fired[2] = 1

\* parseInt(s, 36) of a string of digits of radix 36
RECURSIVE parseInt36(_)
parseInt36(str) ==
  IF str = <<>> THEN 0
  ELSE LET c == str[Len(str)]
           d == IF c >= 97 THEN c - 97 + 10 ELSE c - 48
       IN  36 * parseInt36(SubSeq(str, 1, Len(str) - 1)) + d

\* C14: the k-th id that a generator returns reads back as k in radix 36,
\* whatever number of calls the other generator has had; no generator
\* returns an id twice; each generator has counted its own calls only.
C14_IndependentGenerators ==
  \A g \in Generators :
    /\ \A k \in 1..Len(issued[g]) :
         /\ parseInt36(issued[g][k]) = k
         /\ \A c \in Range(issued[g][k]) : c \in (48..57) \cup (97..122)
         /\ \A j \in 1..(k - 1) : issued[g][j] # issued[g][k]
    /\ idCell[IF g = "unit" THEN 1 ELSE 2] = Len(issued[g])

\* both generators were called, one of them into the ids of two digits
C14_Witness ==
  /\ Len(issued["unit"]) = MaxUnitCalls
  /\ Len(issued["step"]) >= 36
  /\ Len(issued["step"][36]) = 2

\* the exec calls that wait in a user function for a nested launch to return
Callers == {k \in 1..(Len(frames) - 1) : frames[k].pc = "call"}

\* C15: a launch without upsert made by a user function inside a drain
\* starts a drain of its own with the flag saved as true; a layer that was
\* queued before the call is dequeued by that drain or one nested in it; that
\* drain returns with the queue, lists and heap, empty and the flag still
\* true, to the step that made the call; and while it runs the calling node
\* executes no further step and none of its children is enqueued.
C15_NestedDrainRunsToEmpty ==
  /\ (ev.op = "nested" /\ ~ev.flag) =>
       /\ Len(frames) = ev.n + 1 /\ Top.pc = "loop"
       /\ Top.lastStartedState /\ alreadyStarted
       /\ frames[ev.n].pc = "call" /\ frames[ev.n].value.uid = ev.layer.uid
  /\ ev.op = "dequeue" =>
       \A p \in h.inherited : p[1] = ev.layer.uid => Len(frames) >= p[2]
  /\ (ev.op = "exit" /\ Running) =>
       /\ Queued = {} /\ heap = <<>>
       /\ \A i \in 0..4 : queue[i].size = 0
       /\ alreadyStarted /\ ev.flag
       /\ Len(frames) = ev.n - 1 /\ Top.pc = "steps"
       /\ <<Top.value.stack[1].sid, Top.stepn - 1>> \in h.done
  /\ \A k \in Callers :
       LET sid == frames[k].value.stack[1].sid
       IN  /\ sid \notin h.fanned
           /\ \A d \in h.done : d[1] = sid => d[2] <= frames[k].stepn
           /\ \A L \in Queued : \A j \in 1..Len(L.stack) : L.stack[j].sid # sid

\* a nested drain has returned after it dequeued and ran a layer that the
\* outer propagation had enqueued before the nested call
C15_Witness ==
  /\ ev.op = "exit" /\ Running
  /\ \E p \in h.inherited :
       /\ p[2] = ev.n
       /\ \E b \in h.born : b[1] = p[1] /\ <<b[1], 0>> \in h.done

\* the position of a step id in the order nextStepID returned the ids
IssuedAt(id) == CHOOSE k \in 1..Len(issued["step"]) : issued["step"][k] = id

\* C16: with barrier ids taken from nextStepID, the layer at the root of the
\* heap, the one the next dequeue returns, carries an id that was generated
\* before the id of every other layer of its type in the heap.
C16_OlderIdFirst ==
  idHeap # <<>> =>
    \A L \in HeapLayers(idHeap) :
      L.type = idHeap[1].type => IssuedAt(idHeap[1].id) <= IssuedAt(L.id)

\* the step of the event's layer at index n
StepAt(n) == graph[ev.layer.stack[1].node].seq[n + 1]

\* the skip condition of the check step that has just run
CheckSkips ==
  \/ /\ StepAt(ev.n).data.type = "defined"
     /\ ev.layer.stack[1].value = Undefined
  \/ /\ StepAt(ev.n).data.type = "changed"
     /\ ev.layer.stack[1].value =
          refs[graph[ev.layer.stack[1].node].reg[StepAt(ev.n).data.store]]

\* the filter function x => x > 0 has just returned
PosFilterRan ==
  /\ ev.op = "fn" /\ StepAt(ev.n).type = "filter"
  /\ StepAt(ev.n).data.fn = FnPos

\* C17: a check step sets skip exactly on an undefined stack value
\* ('defined') or on a stack value equal to the ref cell ('changed'), and a
\* filter step exactly on a falsy result; once skip is set the step loop is
\* left: no later step of the node is executed on that stack, the ref cells
\* are at the fan-out point what they were at the skip, no child is
\* enqueued; and without skip the next step or the fan-out follows.
C17_SkipStopsNode ==
  /\ ev.op = "check" => (Top.skip <=> CheckSkips)
  /\ PosFilterRan => (Top.skip <=> ev.layer.stack[1].value <= 0)
  /\ (Running /\ Top.pc = "steps" /\ Top.skip) => (Top.stop /\ ~InSteps(Top))
  /\ \A t \in h.skipped :
       /\ \A d \in h.done : d[1] = t[1] => d[2] <= t[2]
       /\ t[1] \notin h.fanned
       /\ \A L \in Queued : Len(L.stack) >= 2 => L.stack[2].sid # t[1]
  /\ (ev.op = "fanout" /\ h.frozen.sid = ev.layer.stack[1].sid) =>
       (ev.flag /\ ev.n = 0 /\ refs = h.frozen.refs)
  /\ ((ev.op = "check" \/ PosFilterRan) /\ ~Top.skip) =>
       /\ ~Top.stop /\ Top.pc = "steps" /\ Top.stepn = ev.n + 1
       /\ Top.value.uid = ev.layer.uid
  /\ (ev.op = "fanout" /\ ~ev.flag) =>
       /\ ev.n = Len(graph[ev.layer.stack[1].node].next)
       /\ \A t \in h.skipped : t[1] # ev.layer.stack[1].sid

\* a node has left its step loop on a skip in front of a mov step that
\* would have changed a ref cell
C17_Witness ==
  /\ ev.op = "fanout" /\ ev.flag
  /\ \E t \in h.skipped :
       /\ t[1] = ev.layer.stack[1].sid
       /\ t[2] + 2 <= Len(graph[ev.layer.stack[1].node].seq)
       /\ StepAt(t[2] + 1).type = "mov" /\ StepAt(t[2] + 1).data.to = "store"
       /\ StepAt(t[2] + 1).data.from = "stack"
       /\ refs[StepAt(t[2] + 1).data.target] # ev.layer.stack[1].value

\* a layer at cursor 0 whose stack is one fresh frame on top of parent
FirstLayer(type, node, parent, value, uid) ==
  [idx |-> 0, type |-> type, id |-> 0, uid |-> uid,
   stack |-> <<[value |-> value, a |-> Null, b |-> Null, node |-> node,
                sid |-> uid]>> \o parent]

\* C18: when a node has completed, the child bucket ends, before anything is
\* dequeued, with one layer per element of node.next in that order, each of
\* type 'child' at cursor 0 with a fresh frame (the completing frame's final
\* value, a and b null, the child as node) whose parent is the completing
\* frame; when launch has seeded, the pure bucket holds one layer per unit in
\* the order given, of type 'pure' at cursor 0 with parent null, the i-th
\* with the i-th payload (params and target when launch got a descriptor);
\* a launch made by a user function appends such a layer to the pure bucket.
C18_ChildAndSeedLayers ==
  /\ (ev.op = "fanout" /\ ~ev.flag) =>
       LET next == graph[ev.layer.stack[1].node].next
           children == BucketList(QState, 0)
       IN  /\ Top.pc = "loop"
           /\ Len(children) >= Len(next)
           /\ \A i \in 1..Len(next) :
                LastOf(children, Len(next))[i] =
                  FirstLayer("child", next[i], ev.layer.stack,
                             ev.layer.stack[1].value,
                             nextUid - Len(next) + i - 1)
  /\ ev.op = "launch" =>
       LET pure == BucketList(QState, 1)
           a == h.args
       IN  /\ Len(pure) = Len(a.units)
           /\ Len(a.units) = (IF a.isArray THEN 2 ELSE 1)
           /\ \A i \in 1..Len(a.units) :
                pure[i] = FirstLayer("pure", a.units[i], <<>>,
                                     IF a.hasTarget THEN a.params[i]
                                     ELSE a.payload[i], i)
           /\ \A j \in {0, 4} : queue[j].size = 0
           /\ heap = <<>>
  /\ ev.op = "nested" =>
       LET pure == BucketList(QState, 1)
           at == IF ev.flag THEN frames[ev.n].stepn - 1 ELSE frames[ev.n].stepn
       IN  /\ pure # <<>>
           /\ pure[Len(pure)] =
                FirstLayer("pure", StepAt(at).data.fn.unit, <<>>,
                           ev.layer.stack[1].value, nextUid - 1)

\* a node that was delivered by its parent and changed its value has fanned
\* out to its child
C18_Witness ==
  /\ ev.op = "fanout" /\ ~ev.flag /\ ev.n >= 1
  /\ Len(ev.layer.stack) >= 2
  /\ ev.layer.stack[1].value # ev.layer.stack[2].value
  /\ ev.layer.stack[1].a # Null

\* the layers of type t in the shared heap
HeapOfType(t) == {L \in HeapLayers(heap) : L.type = t}

\* C19: the size of bucket 2 is the number of barrier layers in the shared
\* heap and the size of bucket 3 the number of sampler layers in it; the
\* size of each FIFO bucket is the length of its linked list, which ends at
\* `last` and holds layers of the bucket's class only; so a bucket of size
\* above 0 has a heap root or a first item to pop, and a pop attributed to a
\* bucket returns a layer of that bucket's class.
C19_SizesMatchContents ==
  /\ queue[2].size = Cardinality(HeapOfType("barrier"))
  /\ queue[3].size = Cardinality(HeapOfType("sampler"))
  /\ HeapSize(heap) = queue[2].size + queue[3].size
  /\ (queue[2].size > 0 \/ queue[3].size > 0) => heap # <<>>
  /\ queue[2].size > 0 => heap[1].type = "barrier"
  /\ \A i \in FifoClasses :
       /\ queue[i].size = Len(BucketList(QState, i))
       /\ \A L \in Range(BucketList(QState, i)) : getPriority(L.type) = i
       /\ IF queue[i].size = 0
          THEN queue[i].first = 0 /\ queue[i].last = 0
          ELSE /\ queue[i].first \in DOMAIN mem
               /\ queue[i].last \in DOMAIN mem
               /\ mem[queue[i].last].right = 0
  /\ Cardinality(DOMAIN mem) = queue[0].size + queue[1].size + queue[4].size
  /\ ev.op = "dequeue" =>
       /\ ev.layer # NoLayer
       /\ getPriority(ev.layer.type) = ev.n

\* a pop attributed to bucket 2 while barrier and sampler layers are left
\* in the heap
C19_Witness ==
  /\ ev.op = "dequeue" /\ ev.n = 2
  /\ queue[2].size >= 1 /\ queue[3].size >= 2

\* the stacks that the active exec calls hold
Held == {frames[k].value.stack[1].sid :
           k \in {j \in 1..Len(frames) : frames[j].value # NoLayer}}

\* C20: the layer queued for a barrier id carries the stack of the arrival
\* that registered the id, and that stack is the one the post-barrier steps
\* run on; the stack of an arrival that found the id registered has had the
\* steps in front of the barrier executed, once, and nothing else: no step
\* from the barrier on, no fan-out, and it is in no queued layer, neither as
\* the layer's frame nor as a parent, and in no running iteration.
C20_CoalescedStacksDiscarded ==
  /\ ev.op \in {"suspend", "pass"} => ev.layer.stack[1].sid = h.first[ev.n]
  /\ ev.op = "coalesce" => ev.layer.stack[1].sid # h.first[ev.n]
  /\ \A L \in Queued : L.id # 0 => L.stack[1].sid = h.first[L.id]
  /\ h.redone = {}
  /\ \A c \in h.coalesced :
       /\ \A j \in 0..(c[2] - 1) : <<c[1], j>> \in h.done
       /\ \A d \in h.done : d[1] = c[1] => d[2] < c[2]
       /\ c[1] \notin h.fanned /\ c[1] \notin Held
       /\ \A L \in Queued : \A j \in 1..Len(L.stack) : L.stack[j].sid # c[1]

\* the post-barrier steps start on the first arrival's stack after another
\* arrival, which had run the step in front of the barrier to another
\* value, was dropped
C20_Witness ==
  /\ ev.op = "pass" /\ ev.layer.idx >= 1
  /\ \E c \in h.coalesced :
       /\ c[3] = ev.n /\ c[2] = ev.layer.idx
       /\ c[4] # ev.layer.stack[1].value

=============================================================================
